---- MODULE Spec2Model ----
(***************************************************************************)
(* Crawl-and-extract engine of the transport data collector:               *)
(*   src/data_collection/scraper.py        TransportScraper                *)
(*   src/data_collection/data_validator.py DataValidator                   *)
(*   src/main.py                           TransportDataCollector          *)
(*   src/data_collection/api_client.py     TransportAPIClient              *)
(* TransportScraper defines scrape_site_with_microsites and scrape_url     *)
(* twice; Python keeps the later definition of each (lines 205 and 234),   *)
(* and those are the ones modelled.                                        *)
(***************************************************************************)
EXTENDS Integers, Sequences, FiniteSets, TLC

VARIABLES
    \* ---- one call of scrape_url on a fresh scraper (SpecFetch), of the
    \* ---- validator (SpecVal) or of fetch_data (SpecApi)
    req,            \* the call's input: url, network answers, page; record
                    \* or frame; network answers
    res,            \* what the call did, <<>> until it ran; for fetch_data
                    \* the state of the call in progress
    \* ---- a collection run, collect_data (Spec)
    sites,          \* the configured targets, in order
    include_microsites,
    pc,             \* position of collect_data / scrape_site_with_microsites
    idx,            \* index of the current target in sites
    visited_urls,   \* TransportScraper.visited_urls
    stack,          \* active calls of _scrape_microsites, innermost last
    call,           \* a call of _scrape_microsites about to start, or <<>>
    data,           \* local list `data` of scrape_site_with_microsites
    all_data,       \* local list `all_data` of collect_data
    validated,      \* the table validate_dataframe returned, <<>> before
    gets,           \* history: GETs issued by scrape_url, per URL
    finds,          \* history: GETs issued by _scrape_microsites, per URL
    fetched,        \* history: for each URL fetched during the current
                    \* target, the length of the link chain it was reached by
    blocked,        \* history: URLs whose fetch was answered by a block
    futures         \* SpecPar: the scrape_url calls handed to the executor

fetchVars == <<req, res>>
crawlVars == <<sites, include_microsites, pc, idx, visited_urls, stack, call,
               data, all_data, validated, gets, finds, fetched, blocked>>
vars == <<fetchVars, crawlVars, futures>>

(***************************************************************************)
(* Bounds of the model                                                     *)
(***************************************************************************)
MaxSites == 2
MaxLinks == 2
MaxTasks == 4
MaxRows == 2

(***************************************************************************)
(* Program constants                                                       *)
(***************************************************************************)
max_depth == 2
max_retries == 2
max_workers == 3
retry_attempts == 3
min_content_length == 20
MinYear == 2000
MaxYear == 2100
TitleMin == 5
ContentMin == 100

status_forcelist == {429, 500, 502, 503, 504}

block_indicators ==
    {"captcha", "blocked", "rate limit", "too many requests", "access denied"}

excluded_patterns ==
    {"/login", "/search", "/page/", "javascript:", "mailto:", "tel:",
     "/tag/", "/category/", "/author/", ".pdf", ".jpg", ".png", ".gif",
     "/feed/", "/rss/", "/xml/", "/raw/", "/wp-content/", "/wp-includes/",
     "/comment", "/trackback", "/cart", "/account", "/profile", "/user"}

included_patterns ==
    {"/projects/", "/research/", "/publications/", "/news/", "/transport/",
     "/mobility/", "/sustainable/", "/africa/", "/east-africa/", "/report",
     "/study", "/analysis", "/policy", "/strategy", "/program"}

(***************************************************************************)
(* Dates.  A date string is modelled by its lexical form: "num" is three   *)
(* zero-padded numeric fields f in reading order joined by sep, a field of *)
(* 1000 or more being written with four digits and any other with two;     *)
(* "num_bare" is the same with the fields below 10 written as one digit;   *)
(* "month_long" / "month_abbr" are "March 5, 2023" / "Mar 5, 2023" with    *)
(* f = <<month, day, year>>; "iso_dt" / "iso_dt_frac" are                  *)
(* "2023-03-05T10:00:00" / "2023-03-05T10:00:00.000Z" with                 *)
(* f = <<year, month, day>>; "junk" is text that is no date, "empty" the    *)
(* empty string; "absent" stands for a missing tag, "None" and "NaN" for   *)
(* null cells.  "num_zero" is year, month, day joined by sep with a year   *)
(* below 1000 zero-padded to four digits ("0999-01-05"); "num_short" is    *)
(* the same with the year written without padding ("999-01-05").           *)
(***************************************************************************)
DateText(form, sep, f) == [form |-> form, sep |-> sep, f |-> f]
Num(sep, a, b, c) == DateText("num", sep, <<a, b, c>>)
Bare(sep, a, b, c) == DateText("num_bare", sep, <<a, b, c>>)
Zero(sep, y, m, d) == DateText("num_zero", sep, <<y, m, d>>)
Junk == DateText("junk", "", <<0, 0, 0>>)
Empty == DateText("empty", "", <<0, 0, 0>>)
Absent == DateText("absent", "", <<0, 0, 0>>)

Width(n) == IF n >= 1000 THEN 4 ELSE 2

IsLeap(y) == (y % 4 = 0 /\ y % 100 # 0) \/ y % 400 = 0

DaysIn(y, m) ==
    IF m \in {4, 6, 9, 11} THEN 30
    ELSE IF m = 2 THEN (IF IsLeap(y) THEN 29 ELSE 28)
    ELSE 31

ValidDate(y, m, d) ==
    /\ y \in 1..9999
    /\ m \in 1..12
    /\ d \in 1..DaysIn(y, m)

NoDate == [ok |-> FALSE, y |-> 0, m |-> 0, d |-> 0]
MkDate(y, m, d) ==
    IF ValidDate(y, m, d) THEN [ok |-> TRUE, y |-> y, m |-> m, d |-> d]
    ELSE NoDate

\* datetime.strptime(text, fmt): ok = FALSE stands for ValueError.  %Y takes
\* four digits, %d and %m one or two.
strptime(text, fmt) ==
    LET f == text.f
        numeric(s, wy, y, m, d) ==
            IF /\ text.form \in {"num", "num_bare"} /\ text.sep = s
               /\ Width(f[wy]) = 4
               /\ \A i \in (1..3) \ {wy} : Width(f[i]) = 2
            THEN MkDate(f[y], f[m], f[d])
            ELSE IF /\ text.form = "num_zero" /\ text.sep = s /\ wy = 1
                    /\ f[1] < 1000
            THEN MkDate(f[1], f[2], f[3])
            ELSE NoDate
    IN  CASE fmt = "%Y-%m-%d" -> numeric("-", 1, 1, 2, 3)
          [] fmt = "%Y/%m/%d" -> numeric("/", 1, 1, 2, 3)
          [] fmt = "%d-%m-%Y" -> numeric("-", 3, 3, 2, 1)
          [] fmt = "%d/%m/%Y" -> numeric("/", 3, 3, 2, 1)
          [] fmt = "%B %d, %Y" ->
                \* "May" is both the long and the abbreviated month name
                IF text.form = "month_long" \/ (text.form = "month_abbr" /\ f[1] = 5)
                THEN MkDate(f[3], f[1], f[2]) ELSE NoDate
          [] fmt = "%b %d, %Y" ->
                IF text.form = "month_abbr" \/ (text.form = "month_long" /\ f[1] = 5)
                THEN MkDate(f[3], f[1], f[2]) ELSE NoDate
          [] fmt = "%Y-%m-%dT%H:%M:%S" ->
                IF text.form = "iso_dt" THEN MkDate(f[1], f[2], f[3]) ELSE NoDate
          [] fmt = "%Y-%m-%dT%H:%M:%S.%fZ" ->
                IF text.form = "iso_dt_frac" THEN MkDate(f[1], f[2], f[3]) ELSE NoDate
          [] OTHER -> NoDate

\* date.strftime('%Y-%m-%d'), which CPython hands to the C library: glibc
\* writes %Y as the plain number, so a year below 1000 comes out with
\* fewer than four digits
strftime(dt) ==
    IF dt.y >= 1000 THEN Num("-", dt.y, dt.m, dt.d)
    ELSE DateText("num_short", "-", <<dt.y, dt.m, dt.d>>)

\* datetime.now().strftime('%Y-%m-%d') at crawl time
Today == Num("-", 2026, 11, 1)

date_formats ==
    <<"%Y-%m-%d", "%Y/%m/%d", "%d-%m-%Y", "%d/%m/%Y", "%B %d, %Y",
      "%b %d, %Y", "%Y-%m-%dT%H:%M:%S", "%Y-%m-%dT%H:%M:%S.%fZ">>

\* the indices of the formats that parse text
Parsing(text) ==
    {i \in 1..Len(date_formats) : strptime(text, date_formats[i]).ok}

Min(S) == CHOOSE x \in S : \A y \in S : x <= y

\* _extract_date: tags is the text of the four sources in the order tried
\* (time, date class, article:published_time, og:published_time)
extract_date(tags) ==
    LET usable == {j \in 1..Len(tags) :
                      tags[j].form # "absent" /\ Parsing(tags[j]) # {}}
    IN  IF usable = {} THEN Today
        ELSE LET t == tags[Min(usable)]
             IN  strftime(strptime(t, date_formats[Min(Parsing(t))]))

(***************************************************************************)
(* URLs.  A URL is its network host and its path; has is the set of the    *)
(* filter's patterns that occur in the lowercased path as substrings.      *)
(***************************************************************************)
Url(netloc, path, has) == [netloc |-> netloc, path |-> path, has |-> has]

SeedA == Url("a.org", "/", {})
R1 == Url("a.org", "/research/r1", {"/research/"})
R2 == Url("a.org", "/research/report-x", {"/research/", "/report"})
R3 == Url("a.org", "/policy", {"/policy"})
Paged == Url("a.org", "/research/page/2", {"/research/", "/page/"})
Other == Url("b.org", "/research/r1", {"/research/"})
NoUrl == Url("", "", {})

Urls == {SeedA, R1, R2, R3, Paged, Other}

(***************************************************************************)
(* Transport: session.get through the HTTPAdapter mounted by               *)
(* _create_robust_session with Retry(total=max_retries, status_forcelist,  *)
(* allowed_methods GET).  outs[k] is what the network answers to the k-th  *)
(* send of one GET.                                                        *)
(***************************************************************************)
Resp(code) == [err |-> "none", status |-> code]
Fail(e) == [err |-> e, status |-> 0]

Answers ==
    {Resp(200), Resp(404), Resp(429), Resp(501), Resp(503),
     Fail("timeout"), Fail("connection"), Fail("invalid_url")}

\* Retry.increment counts a connect error, a read error (timeouts included)
\* and a response whose status is in status_forcelist against `total`
IsRetryable(o) ==
    \/ o.err \in {"timeout", "connection"}
    \/ o.err = "none" /\ o.status \in status_forcelist

\* the exception requests raises once the retries are used up
Exhausted(o) ==
    IF o.err = "none" THEN "RetryError"
    ELSE IF o.err = "timeout" THEN "Timeout"
    ELSE "ConnectionError"

GetResult(raised, status, retries) ==
    [raised |-> raised, status |-> status, retries |-> retries]

\* a ceiling that lets one retry too many through
RetryBudgetPlusOne == max_retries + 1

\* Retry(total=self.max_retries)
RetryBudget == max_retries

RECURSIVE Send(_, _)
Send(outs, k) ==
    LET o == outs[k]
    IN  IF o.err = "invalid_url" THEN GetResult("InvalidURL", 0, k - 1)
        ELSE IF IsRetryable(o)
             THEN IF k - 1 >= RetryBudget
                  THEN GetResult(Exhausted(o), o.status, k - 1)
                  ELSE Send(outs, k + 1)
             ELSE GetResult("none", o.status, k - 1)

session_get(outs) == Send(outs, 1)

\* response.raise_for_status()
raise_for_status(r) ==
    IF r.raised = "none" /\ r.status >= 400 THEN "HTTPError" ELSE r.raised

RequestExceptions ==
    {"Timeout", "ConnectionError", "RetryError", "InvalidURL", "HTTPError"}

(***************************************************************************)
(* Extraction.  A text value is a cell: kind "str" with the identity of    *)
(* the text, its length and the number of surrounding whitespace           *)
(* characters counted in that length, or a null cell ("None", "NaN").      *)
(***************************************************************************)
Str(id, len, pad) == [kind |-> "str", id |-> id, len |-> len, pad |-> pad]
NoneCell == [kind |-> "None", id |-> 0, len |-> 0, pad |-> 0]
NaNCell == [kind |-> "NaN", id |-> 0, len |-> 0, pad |-> 0]

\* Python truthiness of a cell (NaN is a float other than 0: truthy)
Truthy(c) == c.kind = "NaN" \/ (c.kind = "str" /\ c.len > 0)

\* _extract_title: titles are the normalized lengths of the h1, og:title
\* and title candidates, 0 for a missing or empty one
extract_title(titles) ==
    LET good == {i \in 1..Len(titles) : titles[i] > TitleMin}
    IN  IF good = {} THEN NoneCell ELSE Str(Min(good), titles[Min(good)], 0)

\* _extract_content: containers are the normalized lengths of the joined
\* paragraph text of article, main, div by class, div by id, 0 for none
extract_content(containers) ==
    LET good == {i \in 1..Len(containers) : containers[i] > ContentMin}
    IN  IF good = {} THEN NoneCell
        ELSE Str(Min(good), containers[Min(good)], 0)

\* a detector that looks at the status only
status_blocked(page, status) == status = 429

\* _is_blocked
is_blocked(page, status) ==
    \/ status = 429
    \/ page.words \cap block_indicators # {}

Page(words, titles, containers, dates) ==
    [words |-> words, titles |-> titles, containers |-> containers,
     dates |-> dates]

(***************************************************************************)
(* scrape_url.  env is what the call meets: boom (an unexpected exception  *)
(* before the request or while parsing and extracting), outs (the          *)
(* network's answers) and page (the markup of a 2xx answer).  The result   *)
(* gives ret (<<>> for None, else <<record>>), the return path via, the    *)
(* exception that leaves the call (raised), whether a GET was issued       *)
(* (get), the number of times the transport sent it again (retries) and    *)
(* the visited set afterwards.                                             *)
(***************************************************************************)
Outcome(ret, via, raised, get, retries, visited) ==
    [ret |-> ret, via |-> via, raised |-> raised, get |-> get,
     retries |-> retries, visited |-> visited]

\* an except chain that handles request errors only
CatchesRequestOnly(exc) == exc \in RequestExceptions

\* the except clauses of scrape_url: RequestException, then Exception
Catches(exc) == exc \in RequestExceptions \/ exc = "Exception"

Handler(exc, via, get, retries, visited) ==
    IF Catches(exc) THEN Outcome(<<>>, via, "none", get, retries, visited)
    ELSE Outcome(<<>>, via, exc, get, retries, visited)

\* a scraper that forgets to record the URL
NotSeen(visited, url) == visited

\* self.visited_urls.add(url)
Seen(visited, url) == visited \cup {url}

\* a scraper that also wants a date found on the page
CompleteAndDated(rec) ==
    Truthy(rec.title) /\ Truthy(rec.content) /\ rec.date # Today

\* if data['title'] and data['content']: return data
Complete(rec) == Truthy(rec.title) /\ Truthy(rec.content)

\* scrape_url, lines 241-278: the try statement, entered with the URL
\* recorded
scrape_body(seen, url, env) ==
    LET r == session_get(env.outs)
        exc == raise_for_status(r)
        rec == [title |-> extract_title(env.page.titles),
                content |-> extract_content(env.page.containers),
                date |-> extract_date(env.page.dates),
                source_url |-> url,
                scrape_date |-> Today]
    IN  IF env.boom = "before_get"
        THEN Handler("Exception", "unexpected", FALSE, 0, seen)
        ELSE IF exc # "none"
        THEN Handler(exc, "request_error", TRUE, r.retries, seen)
        ELSE IF env.boom = "parse"
        THEN Handler("Exception", "unexpected", TRUE, r.retries, seen)
        ELSE IF is_blocked(env.page, r.status)
        THEN Outcome(<<>>, "blocked", "none", TRUE, r.retries, seen)
        ELSE IF Complete(rec)
        THEN Outcome(<<rec>>, "ok", "none", TRUE, r.retries, seen)
        ELSE Outcome(<<>>, "miss", "none", TRUE, r.retries, seen)

scrape_url(visited, url, env) ==
    IF url \in visited
    THEN Outcome(<<>>, "visited", "none", FALSE, 0, visited)
    ELSE scrape_body(Seen(visited, url), url, env)

Env(boom, outs, page) == [boom |-> boom, outs |-> outs, page |-> page]

(***************************************************************************)
(* DataValidator                                                           *)
(***************************************************************************)
required_fields == {"title", "content", "date"}
\* a validator that expects the year first
iso_format == "%Y-%m-%d"

date_format == "%d-%m-%Y"
NaNDate == DateText("NaN", "", <<0, 0, 0>>)
NoneDate == DateText("None", "", <<0, 0, 0>>)

\* a length check that every content passes
LongEnough(c) == min_content_length

\* len(str(value))
StrLen(c) ==
    IF c.kind = "None" THEN Len("None")
    ELSE IF c.kind = "NaN" THEN Len("nan")
    ELSE c.len

\* validate_data: "True", "False", or "TypeError" when strptime is handed
\* a date that is not a string
validate_data(d) ==
    IF \E f \in required_fields : f \notin DOMAIN d THEN "False"
    ELSE IF d.date.form \in {"NaN", "None"} THEN "TypeError"
    ELSE LET parsed_date == strptime(d.date, date_format)
         IN  IF ~parsed_date.ok THEN "False"
             ELSE IF parsed_date.y < MinYear \/ parsed_date.y > MaxYear
             THEN "False"
             ELSE IF StrLen(d.content) < min_content_length THEN "False"
             ELSE IF ~Truthy(d.title) \/ d.title.kind \in {"NaN", "None"}
             THEN "False"
             ELSE "True"

\* the columns of pd.DataFrame(rows): every key of every row
Columns(rows) == UNION {DOMAIN rows[i] : i \in 1..Len(rows)}

\* row.to_dict(): a key the row lacks is a NaN cell of its column.  Only the
\* required columns are filled in, validate_data reads no other.
to_dict(row, columns) ==
    [c \in DOMAIN row \cup (columns \cap required_fields) |->
        IF c \in DOMAIN row THEN row[c]
        ELSE IF c = "date" THEN NaNDate ELSE NaNCell]

\* the cell c of column k is one that pandas counts as missing
IsNull(k, c) ==
    IF k \in {"title", "content"} THEN c.kind \in {"None", "NaN"}
    ELSE IF k \in {"date", "scrape_date"} THEN c.form \in {"None", "NaN"}
    ELSE FALSE

\* two rows of a frame are duplicates: the same value in every column,
\* missing values (a key the row lacks, None, NaN) counting as equal
SameRow(a, b) ==
    \A k \in DOMAIN a \cup DOMAIN b :
        LET na == k \notin DOMAIN a \/ IsNull(k, a[k])
            nb == k \notin DOMAIN b \/ IsNull(k, b[k])
        IN  IF na \/ nb THEN na /\ nb ELSE a[k] = b[k]

\* a frame left as it is
keep_all(rows) == rows

\* DataFrame.drop_duplicates(): whole rows, the first occurrence kept
RECURSIVE drop_duplicates(_)
drop_duplicates(rows) ==
    IF rows = <<>> THEN <<>>
    ELSE LET n == Len(rows)
             front == drop_duplicates(SubSeq(rows, 1, n - 1))
         IN  IF \E i \in 1..(n - 1) : SameRow(rows[i], rows[n]) THEN front
             ELSE Append(front, rows[n])

\* a mask that loses the first row
FilterRest(rows, keep) == IF rows = <<>> THEN <<>> ELSE Tail(rows)

\* cleaned_df[valid_mask]
RECURSIVE Filter(_, _)
Filter(rows, keep) ==
    IF rows = <<>> THEN <<>>
    ELSE LET rest == Filter(Tail(rows), Tail(keep))
         IN  IF Head(keep) THEN <<Head(rows)>> \o rest ELSE rest

\* validate_dataframe: raised when validate_data raised on some row
validate_dataframe(df) ==
    LET cleaned_df == drop_duplicates(df)
        verdict == [i \in 1..Len(cleaned_df) |->
                       validate_data(to_dict(cleaned_df[i], Columns(df)))]
        valid_mask == [i \in 1..Len(cleaned_df) |-> verdict[i] = "True"]
    IN  IF \E i \in 1..Len(cleaned_df) : verdict[i] = "TypeError"
        THEN [raised |-> TRUE, rows |-> <<>>]
        ELSE [raised |-> FALSE, rows |-> Filter(cleaned_df, valid_mask)]

(***************************************************************************)
(* URL filter                                                              *)
(***************************************************************************)
\* a filter that does not compare the hosts
any_host(url, base_url) ==
    /\ url # NoUrl
    /\ url.has \cap excluded_patterns = {}
    /\ url.has \cap included_patterns # {}

\* a filter that only looks for the inclusion patterns
included_only(url, base_url) ==
    /\ url # NoUrl
    /\ url.netloc = base_url.netloc
    /\ url.has \cap included_patterns # {}

\* _should_scrape_url
should_scrape_url(url, base_url) ==
    IF url = NoUrl THEN FALSE
    ELSE IF url.netloc # base_url.netloc THEN FALSE
    ELSE IF url.has \cap excluded_patterns # {} THEN FALSE
    ELSE url.has \cap included_patterns # {}

(***************************************************************************)
(* Environments                                                            *)
(***************************************************************************)
NoDates == <<Absent, Absent, Absent, Absent>>
Dated == <<Num("-", 2023, 1, 15), Absent, Absent, Absent>>
MetaDated == <<Junk, Absent, DateText("iso_dt_frac", "", <<1999, 3, 5>>), Absent>>

GoodPage == Page({}, <<7, 0, 0>>, <<150, 0, 0, 0>>, Dated)
UndatedPage == Page({}, <<5, 0, 9>>, <<100, 0, 101, 0>>, NoDates)
OldPage == Page({"welcome"}, <<7, 0, 0>>, <<150, 0, 0, 0>>, MetaDated)
BlockPage == Page({"too many requests"}, <<7, 0, 0>>, <<150, 0, 0, 0>>, Dated)
CaptchaPage == Page({"captcha", "welcome"}, <<0, 0, 0>>, <<0, 0, 0, 0>>, NoDates)
NoTitlePage == Page({}, <<5, 0, 0>>, <<150, 0, 0, 0>>, Dated)
NoContentPage == Page({"welcome"}, <<7, 0, 0>>, <<100, 0, 0, 100>>, NoDates)

Pages == {GoodPage, UndatedPage, OldPage, BlockPage, CaptchaPage, NoTitlePage,
          NoContentPage}

Booms == {"none", "before_get", "parse"}

\* one answer per send the transport can make, and one more
AnswerSeqs == [1..(max_retries + 2) -> Answers]

Always(o) == [i \in 1..(max_retries + 2) |-> o]

idleReq == [url |-> NoUrl, known |-> FALSE, env |-> Env("none", Always(Resp(200)), GoodPage)]

(***************************************************************************)
(* SpecFetch: one call of scrape_url, for every environment                *)
(***************************************************************************)
CrawlIdle ==
    /\ sites = <<>> /\ include_microsites = FALSE /\ pc = "idle" /\ idx = 0
    /\ visited_urls = {} /\ stack = <<>> /\ call = <<>> /\ data = <<>>
    /\ all_data = <<>> /\ validated = <<>> /\ gets = <<>> /\ finds = <<>>
    /\ fetched = <<>> /\ blocked = {} /\ futures = <<>>

InitFetch ==
    /\ req \in [url : {R1}, known : BOOLEAN,
                env : [boom : Booms, outs : AnswerSeqs, page : Pages]]
    /\ res = <<>>
    /\ CrawlIdle

ScrapeOne ==
    /\ res = <<>>
    /\ res' = <<scrape_url(IF req.known THEN {req.url} ELSE {}, req.url, req.env)>>
    /\ UNCHANGED <<req, crawlVars, futures>>

NextFetch == ScrapeOne

SpecFetch == InitFetch /\ [][NextFetch]_vars

(***************************************************************************)
(* Spec: a collection run.  collect_data walks the configured targets; for *)
(* each, scrape_site_with_microsites scrapes the base URL and, when        *)
(* microsites are included, calls _scrape_microsites(base_url, depth=0),   *)
(* which fetches the page again for its links, calls scrape_url on every   *)
(* link the filter accepts and calls itself on every link that gave a      *)
(* record.  The scraper, and so visited_urls, is shared by all targets.    *)
(* A page's anchors are read from the network: the model resolves each     *)
(* anchor when the loop reaches it, a frame keeping only how many are      *)
(* left.                                                                   *)
(***************************************************************************)
SiteA == [url |-> SeedA, name |-> "Site A", priority |-> 1]
SiteR == [url |-> R1, name |-> "Research", priority |-> 2]
\* a target whose configuration lacks the 'url' key
SiteBroken == [url |-> NoUrl, name |-> "Broken", priority |-> 3]

SiteConfigs == {SiteA, SiteR, SiteBroken}

SeqsUpTo(S, n) == UNION {[1..k -> S] : k \in 0..n}

CrawlEnvs ==
    {Env("none", Always(Resp(200)), GoodPage),
     Env("none", Always(Resp(200)), BlockPage),
     Env("none", Always(Resp(200)), NoTitlePage),
     Env("none", Always(Resp(429)), GoodPage),
     Env("none", [i \in 1..(max_retries + 2) |->
                     IF i = 1 THEN Fail("timeout") ELSE Resp(404)], GoodPage),
     Env("parse", Always(Resp(200)), GoodPage)}

Init ==
    /\ req = idleReq /\ res = <<>>
    /\ sites \in SeqsUpTo(SiteConfigs, MaxSites) \ {<<>>}
    /\ include_microsites \in BOOLEAN
    /\ pc = "loop" /\ idx = 1
    /\ visited_urls = {}
    /\ stack = <<>> /\ call = <<>> /\ data = <<>>
    /\ all_data = <<>> /\ validated = <<>>
    /\ gets = [u \in Urls |-> 0]
    /\ finds = [u \in Urls |-> 0]
    /\ fetched = <<>>
    /\ blocked = {}
    /\ futures = <<>>

Frame(url, depth, left) ==
    [url |-> url, depth |-> depth, left |-> left, data |-> <<>>,
     err |-> FALSE]

\* url was fetched at the end of a chain of n links from the seed
Reached(f, url, n) ==
    [v \in DOMAIN f \cup {url} |->
        IF v = url /\ (v \notin DOMAIN f \/ n < f[v]) THEN n ELSE f[v]]

\* the answer to the call's GET was a block: status 429 or an indicator
WasBlocked(env, out) ==
    /\ out.get /\ env.boom = "none"
    /\ \/ session_get(env.outs).status = 429
       \/ /\ raise_for_status(session_get(env.outs)) = "none"
          /\ env.page.words \cap block_indicators # {}

\* main_data['source_url'], ['category'], ['priority'] = ...
Tagged(rec, site) ==
    [k \in DOMAIN rec \cup {"category", "priority"} |->
        IF k = "category" THEN site.name
        ELSE IF k = "priority" THEN site.priority
        ELSE IF k = "source_url" THEN site.url
        ELSE rec[k]]

\* collect_data, line 47: continue with the next target
Continue(i, n) == i + 1

\* a caller that takes every target to have a base URL
AnyUrl(site) == TRUE

\* site['url'] in collect_data, site_config['url'] in
\* scrape_site_with_microsites (line 207, before its try): KeyError when
\* the target has no base URL
HasUrl(site) == site.url # NoUrl

\* collect_data, lines 35-47: for a target that has no 'url' the lookup
\* raises KeyError, which the try of the loop logs; the target is skipped
SiteConfigError ==
    /\ pc = "loop" /\ idx <= Len(sites)
    /\ ~HasUrl(sites[idx])
    /\ idx' = Continue(idx, Len(sites))
    /\ UNCHANGED <<pc, sites, include_microsites, visited_urls, stack, call,
                   data, all_data, validated, gets, finds, fetched, blocked, fetchVars, futures>>

\* a scraper that goes on to the microsites of every target
AlwaysMicrosites == TRUE

\* if site_config.get('include_microsites', True)
MicrositesEnabled == include_microsites

\* scrape_site_with_microsites, lines 207-225: scrape the base URL, tag its
\* record, then start on the microsites if they are included
ScrapeMain ==
    /\ pc = "loop" /\ idx <= Len(sites)
    /\ HasUrl(sites[idx])
    /\ \E env \in CrawlEnvs :
         LET site == sites[idx]
             out == scrape_url(visited_urls, site.url, env)
         IN  /\ visited_urls' = out.visited
             /\ data' = IF out.ret # <<>> THEN <<Tagged(out.ret[1], site)>>
                        ELSE <<>>
             /\ IF out.raised = "none" /\ MicrositesEnabled
                THEN /\ call' = <<[url |-> site.url, depth |-> 0]>>
                     /\ pc' = "microsites"
                ELSE /\ call' = <<>>
                     /\ pc' = "return"
             /\ gets' = IF out.get THEN [gets EXCEPT ![site.url] = @ + 1]
                        ELSE gets
             /\ fetched' = IF out.get THEN Reached(<<>>, site.url, 0) ELSE <<>>
             /\ blocked' = IF WasBlocked(env, out)
                           THEN blocked \cup {site.url} ELSE blocked
    /\ UNCHANGED <<sites, include_microsites, idx, stack, all_data, validated,
                   finds, fetchVars, futures>>

\* a call that never gets back to its caller
Hang(frames, sub_data) == UNCHANGED <<stack, data, pc>>

\* a caller that does not keep what the call hands over
Drop(frames, sub_data) ==
    IF frames = <<>>
    THEN /\ stack' = <<>>
         /\ data' = data
         /\ pc' = "return"
    ELSE /\ stack' = frames
         /\ UNCHANGED <<data, pc>>

\* the value a finished call of _scrape_microsites hands to its caller,
\* which extends its own data with it
Deliver(frames, sub_data) ==
    IF frames = <<>>
    THEN /\ stack' = <<>>
         /\ data' = data \o sub_data
         /\ pc' = "return"
    ELSE /\ stack' = [frames EXCEPT ![Len(frames)].data = @ \o sub_data]
         /\ UNCHANGED <<data, pc>>

\* a bound that stops one level too late
DepthReachedLate(depth) == depth > max_depth

\* if depth >= self.max_depth: return []
DepthReached(depth) == depth >= max_depth

\* _scrape_microsites, lines 300-301: the depth bound
DepthStop ==
    /\ call # <<>>
    /\ DepthReached(call[1].depth)
    /\ call' = <<>>
    /\ Deliver(stack, <<>>)
    /\ UNCHANGED <<sites, include_microsites, idx, visited_urls, all_data,
                   validated, gets, finds, fetched, blocked, fetchVars, futures>>

\* _scrape_microsites, lines 305-313 and 331-334: the GET of the page
\* fails, or parsing its answer does; the except clause returns the empty
\* data
DiscoverFail ==
    /\ call # <<>>
    /\ ~DepthReached(call[1].depth)
    /\ \E env \in CrawlEnvs :
         env.boom # "none" \/ raise_for_status(session_get(env.outs)) # "none"
    /\ finds' = [finds EXCEPT ![call[1].url] = @ + 1]
    /\ fetched' = Reached(fetched, call[1].url, Len(stack))
    /\ call' = <<>>
    /\ Deliver(stack, <<>>)
    /\ UNCHANGED <<sites, include_microsites, idx, visited_urls, all_data,
                   validated, gets, blocked, fetchVars, futures>>

\* _scrape_microsites, lines 305-318: the GET of the page succeeds and its
\* anchors are found
Discover ==
    /\ call # <<>>
    /\ ~DepthReached(call[1].depth)
    /\ \E n \in 0..MaxLinks :
         stack' = Append(stack, Frame(call[1].url, call[1].depth, n))
    /\ finds' = [finds EXCEPT ![call[1].url] = @ + 1]
    /\ fetched' = Reached(fetched, call[1].url, Len(stack))
    /\ call' = <<>>
    /\ UNCHANGED <<sites, include_microsites, pc, idx, visited_urls, data,
                   all_data, validated, gets, blocked, fetchVars, futures>>

\* _scrape_microsites, lines 319-322: a link the filter rejects
SkipLink ==
    /\ call = <<>> /\ stack # <<>>
    /\ LET top == stack[Len(stack)]
       IN  /\ top.left > 0
           /\ \E next_url \in Urls \cup {NoUrl} :
                ~should_scrape_url(next_url, top.url)
           /\ stack' = [stack EXCEPT ![Len(stack)].left = @ - 1]
    /\ UNCHANGED <<sites, include_microsites, pc, idx, visited_urls, call,
                   data, all_data, validated, gets, finds, fetched, blocked, fetchVars, futures>>

\* _scrape_microsites, lines 319-329: a link the filter accepts is scraped;
\* when it gave a record the record is kept and the link is expanded.  An
\* exception leaving scrape_url would end the loop (lines 331-332).
FollowLink ==
    /\ call = <<>> /\ stack # <<>>
    /\ LET top == stack[Len(stack)]
       IN  /\ top.left > 0
           /\ \E next_url \in Urls, env \in CrawlEnvs :
                LET out == scrape_url(visited_urls, next_url, env)
                IN  /\ should_scrape_url(next_url, top.url)
                    /\ visited_urls' = out.visited
                    /\ gets' = IF out.get THEN [gets EXCEPT ![next_url] = @ + 1]
                               ELSE gets
                    /\ fetched' = IF out.get
                                  THEN Reached(fetched, next_url, Len(stack))
                                  ELSE fetched
                    /\ blocked' = IF WasBlocked(env, out)
                                  THEN blocked \cup {next_url} ELSE blocked
                    /\ stack' = [stack EXCEPT ![Len(stack)] =
                                   [@ EXCEPT !.left = IF out.raised = "none"
                                                      THEN @ - 1 ELSE 0,
                                             !.err = out.raised # "none",
                                             !.data = @ \o out.ret]]
                    /\ call' = IF out.ret # <<>>
                               THEN <<[url |-> next_url, depth |-> top.depth + 1]>>
                               ELSE <<>>
    /\ UNCHANGED <<sites, include_microsites, pc, idx, data, all_data,
                   validated, finds, fetchVars, futures>>

\* _scrape_microsites, lines 319-322 and 331-332: urljoin or urlparse
\* raises ValueError on a malformed href; the except clause ends the loop
\* of this page
LinkError ==
    /\ call = <<>> /\ stack # <<>>
    /\ stack[Len(stack)].left > 0
    /\ stack' = [stack EXCEPT ![Len(stack)] = [@ EXCEPT !.left = 0, !.err = TRUE]]
    /\ UNCHANGED <<sites, include_microsites, pc, idx, visited_urls, call,
                   data, all_data, validated, gets, finds, fetched, blocked, fetchVars, futures>>

\* _scrape_microsites, line 334: the loop is over, return data
ReturnMicrosites ==
    /\ call = <<>> /\ stack # <<>>
    /\ stack[Len(stack)].left = 0
    /\ Deliver(SubSeq(stack, 1, Len(stack) - 1), stack[Len(stack)].data)
    /\ UNCHANGED <<sites, include_microsites, idx, visited_urls, call,
                   all_data, validated, gets, finds, fetched, blocked, fetchVars, futures>>

\* scrape_site_with_microsites line 232 and collect_data lines 43-44
ReturnSite ==
    /\ pc = "return"
    /\ all_data' = all_data \o data
    /\ data' = <<>>
    /\ idx' = idx + 1
    /\ pc' = "loop"
    /\ UNCHANGED <<sites, include_microsites, visited_urls, stack, call,
                   validated, gets, finds, fetched, blocked, fetchVars, futures>>

\* collect_data, lines 52-65: the records go to the validator and the
\* result is saved; the summary then reads df['category'], a KeyError when
\* no collected record has that key.  An exception of the validator or of
\* the summary leaves collect_data.
Validate ==
    /\ pc = "loop" /\ idx > Len(sites)
    /\ all_data # <<>>
    /\ LET validated_df == validate_dataframe(all_data)
       IN  /\ validated' = <<validated_df>>
           /\ pc' = IF validated_df.raised \/ "category" \notin Columns(all_data)
                    THEN "raised" ELSE "done"
    /\ UNCHANGED <<sites, include_microsites, idx, visited_urls, stack, call,
                   data, all_data, gets, finds, fetched, blocked, fetchVars, futures>>

\* collect_data, lines 67-69: nothing was collected
NoData ==
    /\ pc = "loop" /\ idx > Len(sites)
    /\ all_data = <<>>
    /\ pc' = "done"
    /\ UNCHANGED <<sites, include_microsites, idx, visited_urls, stack, call,
                   data, all_data, validated, gets, finds, fetched, blocked, fetchVars, futures>>

Next ==
    \/ SiteConfigError
    \/ ScrapeMain
    \/ DepthStop
    \/ DiscoverFail
    \/ Discover
    \/ SkipLink
    \/ FollowLink
    \/ LinkError
    \/ ReturnMicrosites
    \/ ReturnSite
    \/ Validate
    \/ NoData

Spec == Init /\ [][Next]_vars

\* a run over one target
InitOne == Init /\ Len(sites) = 1

\* the run over one target when every step that can be taken is taken in
\* the end: each request is answered or times out (timeout=20 on every
\* GET), each sleep ends
SpecLive == InitOne /\ [][Next]_vars /\ WF_vars(Next)

(***************************************************************************)
(* SpecPar: one call of _scrape_microsites_parallel(url).  The links of    *)
(* the page that pass the filter are handed to a ThreadPoolExecutor, one   *)
(* scrape_url call each; the executor starts them in the order submitted,  *)
(* at most max_workers at a time.  The threads share visited_urls without  *)
(* a lock, so a call is three steps that other calls interleave with: the  *)
(* membership test (line 236), the add (line 239) and the rest.            *)
(***************************************************************************)
Future(url) == [url |-> url, at |-> "queued", got |-> FALSE, ret |-> <<>>]

Running == {i \in 1..Len(futures) : futures[i].at \in {"check", "add", "get"}}

RECURSIVE Submitted(_, _)
\* the dict comprehension of lines 105-109
Submitted(links, base_url) ==
    IF links = <<>> THEN <<>>
    ELSE LET rest == Submitted(Tail(links), base_url)
         IN  IF should_scrape_url(Head(links), base_url)
             THEN <<Future(Head(links))>> \o rest ELSE rest

InitPar ==
    /\ req = idleReq /\ res = <<>>
    /\ sites = <<>> /\ include_microsites = FALSE /\ idx = 0
    /\ stack = <<>> /\ call = <<>> /\ all_data = <<>> /\ validated = <<>>
    /\ finds = [u \in Urls |-> 0] /\ fetched = <<>> /\ blocked = {}
    /\ pc = "links"
    /\ visited_urls \in {{SeedA}, {SeedA, R2}}
    /\ gets = [u \in Urls |-> 0]
    /\ data = <<>>
    /\ futures = <<>>

parFrame == <<req, res, sites, include_microsites, idx, stack, call, all_data,
              validated, finds, fetched, blocked>>

\* the anchors _get_links can find on the page
ParLinks == {R1, R2, Paged}

\* what a call of the pool can meet: a page that gives a record, a block,
\* an exception while parsing
ParEnvs ==
    {Env("none", Always(Resp(200)), GoodPage),
     Env("none", Always(Resp(429)), GoodPage),
     Env("parse", Always(Resp(200)), GoodPage)}

\* lines 98-101: _get_links failed or the page has no anchors
NoLinks ==
    /\ pc = "links"
    /\ pc' = "done"
    /\ UNCHANGED <<parFrame, visited_urls, gets, data, futures>>

\* lines 103-109: the links that pass the filter are submitted
Submit ==
    /\ pc = "links"
    /\ \E links \in SeqsUpTo(ParLinks, MaxTasks) \ {<<>>} :
         futures' = Submitted(links, SeedA)
    /\ pc' = "pool"
    /\ UNCHANGED <<parFrame, visited_urls, gets, data>>

\* an executor that starts every call at once
AlwaysRoom == TRUE

\* ThreadPoolExecutor(max_workers=max_workers): a worker is free
PoolHasRoom == Cardinality(Running) < max_workers

\* a free worker takes the next call in the queue
Start(i) ==
    /\ pc = "pool" /\ futures[i].at = "queued"
    /\ \A j \in 1..(i - 1) : futures[j].at # "queued"
    /\ PoolHasRoom
    /\ futures' = [futures EXCEPT ![i].at = "check"]
    /\ UNCHANGED <<parFrame, pc, visited_urls, gets, data>>

\* scrape_url, lines 236-237: if url in self.visited_urls: return None
CheckVisited(i) ==
    /\ pc = "pool" /\ futures[i].at = "check"
    /\ futures' = [futures EXCEPT ![i].at =
                      IF futures[i].url \in visited_urls THEN "done" ELSE "add"]
    /\ UNCHANGED <<parFrame, pc, visited_urls, gets, data>>

\* scrape_url, line 239
AddVisited(i) ==
    /\ pc = "pool" /\ futures[i].at = "add"
    /\ visited_urls' = Seen(visited_urls, futures[i].url)
    /\ futures' = [futures EXCEPT ![i].at = "get"]
    /\ UNCHANGED <<parFrame, pc, gets, data>>

\* scrape_url, lines 241-278
Fetch(i) ==
    /\ pc = "pool" /\ futures[i].at = "get"
    /\ \E env \in ParEnvs :
         LET out == scrape_body(visited_urls, futures[i].url, env)
         IN  /\ futures' = [futures EXCEPT ![i] =
                              [@ EXCEPT !.at = "done", !.got = out.get,
                                        !.ret = out.ret]]
             /\ gets' = IF out.get THEN [gets EXCEPT ![futures[i].url] = @ + 1]
                        ELSE gets
    /\ UNCHANGED <<parFrame, pc, visited_urls, data>>

\* lines 111-119: as_completed hands over a finished call; its record, if
\* any, is appended
Collect(i) ==
    /\ pc = "pool" /\ futures[i].at = "done"
    /\ futures' = [futures EXCEPT ![i].at = "taken"]
    /\ data' = data \o futures[i].ret
    /\ UNCHANGED <<parFrame, pc, visited_urls, gets>>

\* line 121
ReturnPar ==
    /\ pc = "pool"
    /\ \A i \in 1..Len(futures) : futures[i].at = "taken"
    /\ pc' = "done"
    /\ UNCHANGED <<parFrame, visited_urls, gets, data, futures>>

NextPar ==
    \/ NoLinks
    \/ Submit
    \/ \E i \in 1..Len(futures) : Start(i)
    \/ \E i \in 1..Len(futures) : CheckVisited(i)
    \/ \E i \in 1..Len(futures) : AddVisited(i)
    \/ \E i \in 1..Len(futures) : Fetch(i)
    \/ \E i \in 1..Len(futures) : Collect(i)
    \/ ReturnPar

SpecPar == InitPar /\ [][NextPar]_vars

(***************************************************************************)
(* SpecVal: one call of DataValidator.validate_data on a record, or of     *)
(* validate_dataframe on a frame and then on its own result.  req holds    *)
(* the call, res its results.                                              *)
(***************************************************************************)
\* a key the record does not have
Missing == [kind |-> "missing", id |-> 0, len |-> 0, pad |-> 0]
MissingDate == DateText("missing", "", <<0, 0, 0>>)

\* the dict with the given values, without the keys that are missing
Dict(title, content, date) ==
    LET keys == {k \in required_fields :
                    \/ k = "title" /\ title # Missing
                    \/ k = "content" /\ content # Missing
                    \/ k = "date" /\ date # MissingDate}
    IN  [k \in keys |-> IF k = "title" THEN title
                        ELSE IF k = "content" THEN content ELSE date]

Row(title, content, date, source) ==
    [title |-> title, content |-> content, date |-> date, source_url |-> source]

EmptyStr == Str(0, 0, 0)

DictTitles == {Str(1, 7, 0), EmptyStr, NoneCell, NaNCell, Missing}

\* lengths around min_content_length; pad is the surrounding whitespace
\* counted in the length
DictContents ==
    {Str(1, min_content_length, 0), Str(2, min_content_length - 1, 0),
     Str(3, min_content_length, 5), Str(4, min_content_length + 5, 5),
     EmptyStr, NoneCell, Missing}

DictDates ==
    {Num("-", 31, 12, 2023), Num("-", 31, 11, 2023), Num("-", 29, 2, 2023),
     Num("-", 1, 1, 2000), Num("-", 31, 12, 2100), Num("-", 1, 1, 2101),
     Num("-", 31, 12, 1999), Num("-", 2023, 1, 15), Num("/", 31, 12, 2023),
     Bare("-", 1, 1, 2024), Junk, Empty, NaNDate, NoneDate, MissingDate}

Dicts ==
    {Dict(t, c, d) : t \in DictTitles, c \in DictContents, d \in DictDates}

FrameRows ==
    {Row(t, c, d, s) :
        t \in {Str(1, 7, 0), NoneCell},
        c \in {Str(1, min_content_length, 0),
                Str(2, min_content_length - 1, 0)},
        d \in {Num("-", 1, 1, 2000), Num("-", 31, 12, 2100),
                Num("-", 1, 1, 2101), Num("-", 31, 12, 1999),
                Num("-", 2023, 1, 15), NaNDate},
        s \in {1, 2}}

Frames == SeqsUpTo(FrameRows, MaxRows)

InitVal ==
    /\ req \in [op : {"validate_data"}, arg : Dicts]
               \cup [op : {"validate_dataframe"}, arg : Frames]
    /\ res = <<>>
    /\ CrawlIdle

\* validate_data(data)
ValidateOne ==
    /\ req.op = "validate_data" /\ res = <<>>
    /\ res' = <<validate_data(req.arg)>>
    /\ UNCHANGED <<req, crawlVars, futures>>

\* validate_dataframe(df)
ValidateFrame ==
    /\ req.op = "validate_dataframe" /\ res = <<>>
    /\ res' = <<validate_dataframe(req.arg)>>
    /\ UNCHANGED <<req, crawlVars, futures>>

\* validate_dataframe(validate_dataframe(df))
ValidateAgain ==
    /\ req.op = "validate_dataframe" /\ Len(res) = 1
    /\ ~res[1].raised
    /\ res' = Append(res, validate_dataframe(res[1].rows))
    /\ UNCHANGED <<req, crawlVars, futures>>

NextVal ==
    \/ ValidateOne
    \/ ValidateFrame
    \/ ValidateAgain

SpecVal == InitVal /\ [][NextVal]_vars

(***************************************************************************)
(* SpecApi: one call of TransportAPIClient.fetch_data.  The client's       *)
(* session is a plain requests.Session, so an attempt of the loop is one   *)
(* request; req.outs[k] is what the network answers to the k-th.  res[1]   *)
(* is the call: attempt is the loop variable, sent the number of requests  *)
(* issued, at is "loop", "returned" or "raised", value the number of the   *)
(* response whose JSON is returned or the exception raised.                *)
(***************************************************************************)
\* a 2xx answer whose body is not JSON
BadJson == [err |-> "bad_json", status |-> 200]

ApiAnswers == Answers \cup {BadJson}

\* the exception of one attempt (lines 71-81): session.get,
\* raise_for_status, response.json; each one is a RequestException
ApiError(o) ==
    IF o.err = "timeout" THEN "Timeout"
    ELSE IF o.err = "connection" THEN "ConnectionError"
    ELSE IF o.err = "invalid_url" THEN "InvalidURL"
    ELSE IF o.status >= 400 THEN "HTTPError"
    ELSE IF o.err = "bad_json" THEN "JSONDecodeError"
    ELSE "none"

\* a loop that never takes an attempt for the last
NoLastAttempt == retry_attempts

\* if attempt == retry_attempts - 1: raise
LastAttempt == retry_attempts - 1

ApiCall(attempt, sent, at, value) ==
    [attempt |-> attempt, sent |-> sent, at |-> at, value |-> value]

InitApi ==
    /\ req \in [op : {"fetch_data"},
                outs : [1..(retry_attempts + 1) -> ApiAnswers]]
    /\ res = <<ApiCall(0, 0, "loop", "none")>>
    /\ CrawlIdle

\* lines 64-81: the request of this attempt succeeds, its JSON is returned
ApiReturn ==
    /\ req.op = "fetch_data" /\ res[1].at = "loop"
    /\ res[1].attempt < retry_attempts
    /\ ApiError(req.outs[res[1].attempt + 1]) = "none"
    /\ res' = <<ApiCall(res[1].attempt, res[1].sent + 1, "returned",
                        res[1].attempt + 1)>>
    /\ UNCHANGED <<req, crawlVars, futures>>

\* lines 83-90: the request fails, the loop goes on
ApiRetry ==
    /\ req.op = "fetch_data" /\ res[1].at = "loop"
    /\ res[1].attempt < retry_attempts
    /\ ApiError(req.outs[res[1].attempt + 1]) # "none"
    /\ res[1].attempt # LastAttempt
    /\ res' = <<ApiCall(res[1].attempt + 1, res[1].sent + 1, "loop", "none")>>
    /\ UNCHANGED <<req, crawlVars, futures>>

\* lines 83-88: the request of the last attempt fails, its exception is
\* raised again
ApiRaise ==
    /\ req.op = "fetch_data" /\ res[1].at = "loop"
    /\ res[1].attempt < retry_attempts
    /\ ApiError(req.outs[res[1].attempt + 1]) # "none"
    /\ res[1].attempt = LastAttempt
    /\ res' = <<ApiCall(res[1].attempt, res[1].sent + 1, "raised",
                        ApiError(req.outs[res[1].attempt + 1]))>>
    /\ UNCHANGED <<req, crawlVars, futures>>

NextApi ==
    \/ ApiReturn
    \/ ApiRetry
    \/ ApiRaise

SpecApi == InitApi /\ [][NextApi]_vars

(***************************************************************************)
(* SpecFilter: one call of _should_scrape_url(url, base_url), for links on *)
(* either host whose path holds any combination of a few patterns.         *)
(***************************************************************************)
Hosts == {"a.org", "b.org"}
PathPatterns == {"/research/", "/report", "/page/", "/login", ".pdf"}

FilterUrls ==
    {Url(n, "", h) : n \in Hosts, h \in SUBSET PathPatterns}
        \cup Urls \cup {NoUrl}

InitFilter ==
    /\ req \in [op : {"should_scrape_url"}, url : FilterUrls,
                base_url : {SeedA, Other}]
    /\ res = <<>>
    /\ CrawlIdle

FilterOne ==
    /\ req.op = "should_scrape_url" /\ res = <<>>
    /\ res' = <<should_scrape_url(req.url, req.base_url)>>
    /\ UNCHANGED <<req, crawlVars, futures>>

NextFilter == FilterOne

SpecFilter == InitFilter /\ [][NextFilter]_vars

(***************************************************************************)
(* SpecDate: one call of _extract_date on a page whose four date sources   *)
(* (time, date class, article:published_time, og:published_time) each are  *)
(* missing or hold one of a few texts.                                     *)
(***************************************************************************)
SourceTexts ==
    {Absent, Empty, Junk,
     Num("-", 2023, 3, 5),                            \* 2023-03-05
     Num("-", 2023, 2, 30),                           \* 2023-02-30
     Num("/", 7, 4, 2022),                            \* 07/04/2022
     Bare("-", 7, 4, 2022),                           \* 7-4-2022
     DateText("month_long", "", <<3, 5, 2023>>),      \* March 5, 2023
     DateText("month_abbr", "", <<5, 9, 2021>>),      \* May 9, 2021
     DateText("iso_dt", "", <<2020, 2, 29>>),         \* 2020-02-29T10:00:00
     DateText("iso_dt_frac", "", <<2023, 3, 5>>),     \* 2023-03-05T10:00:00.000Z
     Zero("-", 999, 1, 5)}                            \* 0999-01-05

InitDate ==
    /\ req \in [op : {"extract_date"}, tags : [1..4 -> SourceTexts]]
    /\ res = <<>>
    /\ CrawlIdle

ExtractOne ==
    /\ req.op = "extract_date" /\ res = <<>>
    /\ res' = <<extract_date(req.tags)>>
    /\ UNCHANGED <<req, crawlVars, futures>>

NextDate == ExtractOne

SpecDate == InitDate /\ [][NextDate]_vars

(***************************************************************************)
(* Claims about one call of scrape_url (SpecFetch)                         *)
(***************************************************************************)
\* the call's GET ends in an error: an exception of the transport or an
\* HTTP error status
GetFails(env) == raise_for_status(session_get(env.outs)) # "none"

\* C6: scrape_url never raises to its caller: whatever the fetch meets
\* (timeout, connection error, HTTP error status, retries used up, malformed
\* URL, an unexpected exception before the request or while parsing and
\* extracting), no exception leaves the call and it returns None.
C6_NeverRaises ==
    res # <<>> =>
        /\ res[1].raised = "none"
        /\ (req.env.boom # "none" \/ GetFails(req.env)) => res[1].ret = <<>>

\* an unexpected exception while parsing the answer of a GET was swallowed
C6_Witness ==
    /\ res # <<>>
    /\ res[1].via = "unexpected" /\ res[1].get
    /\ res[1].raised = "none" /\ res[1].ret = <<>>

\* the page of the call arrived: the URL was new, nothing unexpected
\* happened, the GET was answered without an error status and the answer
\* is no block
PageArrived ==
    /\ res # <<>> /\ ~req.known /\ req.env.boom = "none"
    /\ ~GetFails(req.env)
    /\ session_get(req.env.outs).status # 429
    /\ req.env.page.words \cap block_indicators = {}

HasTitle(page) == \E i \in 1..Len(page.titles) : page.titles[i] > TitleMin
HasContent(page) ==
    \E i \in 1..Len(page.containers) : page.containers[i] > ContentMin
NoDateParses(page) ==
    \A j \in 1..Len(page.dates) :
        page.dates[j].form = "absent" \/ Parsing(page.dates[j]) = {}

\* C21: for a page that was fetched and is not blocked, scrape_url returns a
\* record exactly when the page has a title and a content that pass
\* extraction; nothing is raised either way, and a page with no date that
\* parses still gives its record, dated with the current date.
C21_RecordIffExtracted ==
    PageArrived =>
        /\ res[1].raised = "none"
        /\ res[1].ret # <<>> <=> (HasTitle(req.env.page) /\ HasContent(req.env.page))
        /\ (res[1].ret # <<>> /\ NoDateParses(req.env.page)) =>
               res[1].ret[1].date = Today

\* a page with title and content and no date tag gave a record dated today
C21_Witness ==
    /\ PageArrived
    /\ NoDateParses(req.env.page)
    /\ res[1].ret # <<>> /\ res[1].ret[1].date = Today

\* the failures the claim lists as transient: timeout, HTTP 5xx, HTTP 429
TransientListed(a) ==
    \/ a.err = "timeout"
    \/ a.err = "none" /\ (a.status = 429 \/ a.status \in 500..599)

\* ... and connection errors, which Retry(total=...) counts as well
TransientOrConnection(a) == TransientListed(a) \/ a.err = "connection"

\* 4xx other than 429, malformed URL
NonRetryable(a) ==
    \/ a.err = "invalid_url"
    \/ a.err = "none" /\ a.status \in 400..499 /\ a.status # 429

RetryClaim(listedOnly) ==
    (res # <<>> /\ res[1].get) =>
        LET outs == req.env.outs
            n == res[1].retries
            Transient(o) == IF listedOnly THEN TransientListed(o)
                            ELSE TransientOrConnection(o)
        IN  /\ \A i \in 1..n : Transient(outs[i])
            /\ n <= max_retries
            /\ NonRetryable(outs[1]) => (n = 0 /\ res[1].ret = <<>>)
            /\ (\A i \in 1..(max_retries + 1) : Transient(outs[i])) =>
                   (res[1].ret = <<>> /\ res[1].raised = "none")

RECURSIVE FrameData(_)
\* the records held by the calls of _scrape_microsites in progress
FrameData(frames) ==
    IF frames = <<>> THEN <<>>
    ELSE FrameData(SubSeq(frames, 1, Len(frames) - 1)) \o frames[Len(frames)].data

\* every record the run holds at this point
Held == all_data \o data \o FrameData(stack)

\* the number of records held for url
RecCount(url) == Cardinality({i \in 1..Len(Held) : Held[i].source_url = url})

\* C1: within one run no URL is the target of more than one GET, counting
\* the GET of scrape_url and the link-discovery GET of _scrape_microsites.
C1_FetchedOnce == \A u \in Urls : gets[u] + finds[u] <= 1

\* C2: every URL fetched while a target is crawled is at most max_depth
\* links away from the seed; the depth of a call of _scrape_microsites is
\* the number of calls below it, so it starts at 0 and grows by one per
\* recursive call; no call whose depth has reached max_depth reads links.
C2_DepthBound ==
    /\ \A u \in DOMAIN fetched : fetched[u] <= max_depth
    /\ \A i \in 1..Len(stack) :
          stack[i].depth = i - 1 /\ stack[i].depth < max_depth
    /\ call # <<>> => call[1].depth = Len(stack)

\* a page max_depth links away from the seed was fetched, and the call that
\* would expand it has reached the bound
C2_Witness ==
    /\ call # <<>> /\ call[1].depth = max_depth
    /\ call[1].url \in DOMAIN fetched
    /\ fetched[call[1].url] = max_depth

\* C4: visited_urls only grows; a URL that scrape_url fetched is in
\* visited_urls, whatever the fetch gave; scrape_url sends at most one GET
\* for a URL in a run and the run holds at most one record for it, so a
\* later call for the same URL gives no record and sends no request.
C4_VisitedOnce ==
    /\ [](\A u \in Urls :
            /\ gets[u] <= 1
            /\ RecCount(u) <= gets[u]
            /\ gets[u] > 0 => u \in visited_urls)
    /\ [][/\ visited_urls \subseteq visited_urls'
          /\ \A u \in visited_urls : gets'[u] = gets[u]]_vars

\* the first target's URL was blocked; the second target has the same URL
\* and its scrape_url call returned nothing without a request
C4_Witness ==
    /\ Len(sites) >= 2 /\ idx = 2 /\ pc = "return"
    /\ sites[1].url = sites[2].url /\ sites[1].url # NoUrl
    /\ sites[1].url \in blocked
    /\ gets[sites[1].url] = 1 /\ data = <<>>

\* C5: a URL whose answer was a block (status 429 or an indicator in the
\* page text) has no record, even when its page has a title and content;
\* the step that meets the block raises nothing and the crawl goes on: the
\* loop over the links moves to the next link, the scrape of a base URL
\* goes on to its microsites or returns.
C5_BlockedNoRecord ==
    /\ [](\A i \in 1..Len(Held) : Held[i].source_url \notin blocked)
    /\ [][blocked' # blocked =>
            IF stack # <<>>
            THEN /\ Len(stack') = Len(stack)
                 /\ stack'[Len(stack)].left = stack[Len(stack)].left - 1
                 /\ stack'[Len(stack)].data = stack[Len(stack)].data
            ELSE /\ data' = <<>>
                 /\ pc' = IF include_microsites THEN "microsites"
                          ELSE "return"]_vars

\* the seed of the first target was blocked although its page had a title
\* and content, and the crawl went on to take a record from a linked page
C5_Witness ==
    /\ sites[1].url = SeedA /\ SeedA \in blocked
    /\ idx = 1
    /\ \E i \in 1..Len(Held) : Held[i].source_url = R1

\* C8: a run always completes: no exception leaves collect_data; when it
\* has ended every target of the list was processed, one after the other,
\* and the records gathered went to the validator.
C8_RunCompletes ==
    /\ pc # "raised"
    /\ pc = "done" =>
          /\ idx = Len(sites) + 1
          /\ all_data # <<>> => validated = <<validate_dataframe(all_data)>>

\* C9: every record returned for a target, the seed's and every child's,
\* has the target's category and priority.
C9_AllTagged ==
    pc = "return" =>
        \A i \in 1..Len(data) :
            /\ {"category", "priority"} \subseteq DOMAIN data[i]
            /\ data[i].category = sites[idx].name
            /\ data[i].priority = sites[idx].priority

\* the date is a real calendar date in a form the extractor knows, with a
\* year the validator accepts
SupportedDate(text) ==
    \E i \in Parsing(text) :
        LET parsed == strptime(text, date_formats[i])
        IN  MinYear <= parsed.y /\ parsed.y <= MaxYear

\* C10: a collected record with a real calendar date of an accepted year,
\* in any supported form, a non-empty title and a content of at least
\* min_content_length is kept by validate_dataframe.
C10_DateKept ==
    validated # <<>> =>
        \A i \in 1..Len(all_data) :
            (/\ SupportedDate(all_data[i].date)
             /\ Truthy(all_data[i].title)
             /\ StrLen(all_data[i].content) >= min_content_length)
            => \E j \in 1..Len(validated[1].rows) :
                   validated[1].rows[j] = all_data[i]

(***************************************************************************)
(* Claims about the worker pool (SpecPar)                                  *)
(***************************************************************************)
\* the call has passed the membership test of visited_urls
Passed(i) == futures[i].at \in {"add", "get"} \/ futures[i].got

\* C3: of the calls that the pool runs for one URL, at most one passes the
\* membership test and goes on to fetch, whatever the interleaving; the
\* URL gets one GET at most.
C3_OneWorkerFetches ==
    /\ \A i, j \in 1..Len(futures) :
          (i # j /\ futures[i].url = futures[j].url) =>
              ~(Passed(i) /\ Passed(j))
    /\ \A u \in Urls : gets[u] <= 1

\* C27: in _scrape_microsites_parallel only links the filter accepts are
\* handed to the pool; at no time are more than max_workers scrape_url
\* calls in progress; the function returns only when every call it handed
\* over has finished and been collected; the list it builds holds exactly
\* the records of the collected calls that gave one, a call that failed
\* adding nothing and stopping nothing.
C27_PoolContract ==
    LET taken == {i \in 1..Len(futures) : futures[i].at = "taken"}
        gave == {i \in taken : futures[i].ret # <<>>}
    IN  /\ \A i \in 1..Len(futures) : should_scrape_url(futures[i].url, SeedA)
        /\ Cardinality({i \in 1..Len(futures) :
                           futures[i].at \in {"check", "add", "get"}}) <= max_workers
        /\ pc = "done" => taken = 1..Len(futures)
        /\ Len(data) = Cardinality(gave)
        /\ \A i \in gave : \E k \in 1..Len(data) : data[k] = futures[i].ret[1]

\* max_workers calls are in progress and a fourth waits for a free worker
C27_Witness ==
    /\ pc = "pool"
    /\ Cardinality(Running) = max_workers
    /\ \E i \in 1..Len(futures) : futures[i].at = "queued"

(***************************************************************************)
(* Claims about the validator (SpecVal)                                    *)
(***************************************************************************)
\* validate_dataframe(req.arg) has returned
FrameDone ==
    req.op = "validate_dataframe" /\ res # <<>> /\ ~res[1].raised

\* validate_data(req.arg) has ended
DictDone == req.op = "validate_data" /\ res # <<>>

\* C11: no two records of the output of validate_dataframe have the same
\* title and the same content, and the record kept for a pair (title,
\* content) is the first of the input with that pair.
C11_PairUnique ==
    FrameDone =>
        LET out == res[1].rows
            df == req.arg
            SamePair(a, b) == a.title = b.title /\ a.content = b.content
        IN  /\ \A i, j \in 1..Len(out) : SamePair(out[i], out[j]) => i = j
            /\ \A i \in 1..Len(out) :
                  \E k \in 1..Len(df) :
                      /\ df[k] = out[i]
                      /\ \A h \in 1..(k - 1) : ~SamePair(df[h], df[k])

\* C12: validate_dataframe applied to its own result returns that result:
\* the same records in the same order.
C12_Idempotent ==
    (req.op = "validate_dataframe" /\ Len(res) = 2) => res[2] = res[1]

\* the first pass removed a row and kept one, the second pass has run
C12_Witness ==
    /\ req.op = "validate_dataframe" /\ Len(res) = 2
    /\ res[1].rows # <<>>
    /\ Len(res[1].rows) < Len(req.arg)

\* the date is a real day-month-year date the validator accepts
GoodDate(d) ==
    /\ d.form \in {"num", "num_bare"} /\ d.sep = "-"
    /\ ValidDate(d.f[3], d.f[2], d.f[1])
    /\ MinYear <= d.f[3] /\ d.f[3] <= MaxYear

\* C13: for a record that is otherwise valid, validate_data accepts
\* exactly when the content, without its surrounding whitespace, has at
\* least min_content_length characters.
C13_TrimmedLength ==
    (/\ DictDone
     /\ DOMAIN req.arg = required_fields
     /\ req.arg.title.kind = "str" /\ req.arg.title.len > 0
     /\ GoodDate(req.arg.date)
     /\ req.arg.content.kind = "str")
    => (res[1] = "True" <=>
            req.arg.content.len - req.arg.content.pad >= min_content_length)

\* C14: every record of the output of validate_dataframe has a content of
\* at least min_content_length characters and a date whose year is in
\* 2000..2100.
C14_OutputBounds ==
    FrameDone =>
        \A i \in 1..Len(res[1].rows) :
            LET r == res[1].rows[i]
            IN  /\ r.content.kind = "str"
                /\ r.content.len >= min_content_length
                /\ r.date.form \in {"num", "num_bare"}
                /\ r.date.f[3] \in 2000..2100

\* the output holds a record of the year 2000 and one of the year 2100,
\* with a content of exactly min_content_length characters
C14_Witness ==
    /\ FrameDone
    /\ \E i, j \in 1..Len(res[1].rows) :
          /\ res[1].rows[i].date.f[3] = 2000
          /\ res[1].rows[j].date.f[3] = 2100
          /\ res[1].rows[i].content.len = min_content_length

\* C15: every record of the output of validate_dataframe has its date in
\* the form YYYY-MM-DD.
C15_IsoDates ==
    FrameDone =>
        \A i \in 1..Len(res[1].rows) :
            LET d == res[1].rows[i].date
            IN  d.form = "num" /\ d.sep = "-" /\ Width(d.f[1]) = 4

\* C16: validate_dataframe returns normally for every frame, rows with a
\* missing, empty or null title, content or date included.
C16_FrameNeverRaises ==
    (req.op = "validate_dataframe" /\ res # <<>>) => ~res[1].raised

\* the required field k of record d is absent or the empty string
AbsentOrEmpty(d, k) ==
    \/ k \notin DOMAIN d
    \/ k \in {"title", "content"} /\ d[k] = EmptyStr
    \/ k = "date" /\ d[k] = Empty

\* C17: validate_data returns False for every record in which a required
\* field is absent or empty, whatever the other fields hold.
C17_AbsentOrEmptyFalse ==
    (DictDone /\ \E k \in required_fields : AbsentOrEmpty(req.arg, k))
    => res[1] = "False"

\* the record has its three fields, the date being a string, and passes
\* the checks of content and title
RestPasses(d) ==
    /\ StrLen(d.content) >= min_content_length
    /\ d.title.kind = "str" /\ d.title.len > 0

\* the date check of C18 for dates accepted as day-month-year: the
\* zero-padded ones only (strict) or those with one-digit fields as well
DateClaim(strict) ==
    (/\ DictDone
     /\ DOMAIN req.arg = required_fields
     /\ req.arg.date.form \notin {"None", "NaN"})
    => LET d == req.arg.date
           dmy == /\ d.form \in (IF strict THEN {"num"}
                                  ELSE {"num", "num_bare"})
                  /\ d.sep = "-"
                  /\ Width(d.f[1]) = 2 /\ Width(d.f[2]) = 2
                  /\ Width(d.f[3]) = 4
                  /\ ValidDate(d.f[3], d.f[2], d.f[1])
       IN  /\ ~dmy => res[1] = "False"
           /\ (dmy /\ MinYear <= d.f[3] /\ d.f[3] <= MaxYear) =>
                  (res[1] = "True" <=> RestPasses(req.arg))

Kept(df) ==
    {i \in 1..Len(df) :
        /\ validate_data(df[i]) = "True"
        /\ \A j \in 1..(i - 1) : ~SameRow(df[j], df[i])}

\* C19: the output of validate_dataframe is the rows of the input that
\* pass validate_data and repeat no earlier row, in the order of the input.
C19_ExactOutput ==
    FrameDone =>
        LET out == res[1].rows
            df == req.arg
            K == Kept(df)
        IN  /\ Len(out) = Cardinality(K)
            /\ \A i \in K :
                  out[Cardinality({j \in K : j <= i})] = df[i]

\* of two equal rows that pass validate_data one is in the output
C19_Witness ==
    /\ FrameDone
    /\ Len(req.arg) = 2 /\ SameRow(req.arg[1], req.arg[2])
    /\ Len(res[1].rows) = 1

(***************************************************************************)
(* Claims about the API client (SpecApi)                                   *)
(***************************************************************************)
\* the k-th request of the call fails
ApiFailed(k) == ApiError(req.outs[k]) # "none"

\* C20: fetch_data issues its requests one after another, the next one
\* only after a failure, and never more than retry_attempts; when request
\* k succeeds it returns the JSON of that response after exactly k
\* requests; when retry_attempts requests have failed it raises the
\* request exception; once it has returned or raised no request follows.
C20_FetchData ==
    /\ [](LET c == res[1]
          IN  /\ c.sent <= retry_attempts
              /\ \A k \in 1..c.attempt : ApiFailed(k)
              /\ c.at = "loop" => (c.sent = c.attempt /\ c.sent < retry_attempts)
              /\ c.at = "returned" =>
                    /\ c.sent = c.attempt + 1
                    /\ ~ApiFailed(c.sent) /\ c.value = c.sent
              /\ c.at = "raised" =>
                    /\ c.sent = retry_attempts
                    /\ \A k \in 1..retry_attempts : ApiFailed(k)
                    /\ c.value = ApiError(req.outs[retry_attempts]))
    /\ [][res[1].at = "loop" /\ res'[1].sent = res[1].sent + 1]_vars

\* the first requests failed and the last one allowed succeeded
C20_Witness ==
    /\ req.op = "fetch_data"
    /\ res[1].at = "returned" /\ res[1].sent = retry_attempts

(***************************************************************************)
(* Claims about the URL filter (SpecFilter)                                *)
(***************************************************************************)
\* C22: _should_scrape_url accepts a link exactly when all three hold: its
\* host is the host of the page it was found on, its lowercased path holds
\* no exclusion pattern, and the path holds at least one inclusion pattern;
\* a path that holds a pattern of each kind is rejected.
C22_FilterPolicy ==
    res # <<>> =>
        LET same_host == req.url # NoUrl /\ req.url.netloc = req.base_url.netloc
            excluded == \E p \in excluded_patterns : p \in req.url.has
            included == \E p \in included_patterns : p \in req.url.has
        IN  /\ res[1] <=> (same_host /\ ~excluded /\ included)
            /\ (excluded /\ included) => ~res[1]

\* /research/page/2 on the page's own host was rejected
C22_Witness ==
    /\ res = <<FALSE>>
    /\ req.url = Paged /\ req.base_url = SeedA
    /\ "/research/" \in req.url.has /\ "/page/" \in req.url.has

(***************************************************************************)
(* Claims about the crawl of one target (Spec)                             *)
(***************************************************************************)
\* C23: a target without a base URL is reported as an error and nothing is
\* fetched for it: no GET, no visited URL, no record, and the run goes on
\* with the next target.  That is the only way the call for a target ends
\* without a list: for a target with a base URL the call starts, stays in
\* the crawl whatever the fetches meet, and its list reaches the caller.
C23_OnlyMissingUrlRaises ==
    [][/\ (pc = "loop" /\ idx <= Len(sites) /\ sites[idx].url = NoUrl) =>
             /\ pc' = "loop" /\ idx' = idx + 1
             /\ UNCHANGED <<gets, finds, visited_urls, data, all_data>>
       /\ (pc = "loop" /\ idx <= Len(sites) /\ sites[idx].url # NoUrl) =>
             /\ pc' \in {"microsites", "return"} /\ idx' = idx
       /\ pc = "microsites" => (pc' \in {"microsites", "return"} /\ idx' = idx)
       /\ pc = "return" =>
             /\ pc' = "loop" /\ idx' = idx + 1
             /\ all_data' = all_data \o data]_vars

\* the first target had no base URL and nothing was fetched for it; the
\* second was blocked on its base page and still returned its (empty) list
C23_Witness ==
    /\ sites = <<SiteBroken, SiteA>>
    /\ idx = 2 /\ pc = "return"
    /\ gets[SeedA] = 1 /\ SeedA \in blocked
    /\ data = <<>> /\ all_data = <<>>

\* C24: the records a run holds have pairwise distinct source_url: a page
\* reached several times, from several pages or as a target and as a link,
\* gives at most one record.
C24_DistinctSources ==
    \A i, j \in 1..Len(Held) :
        Held[i].source_url = Held[j].source_url => i = j

\* /research/r1 gave a record as a link of the first target; reached again
\* as the base URL of the second target it gave none
C24_Witness ==
    /\ sites = <<SiteA, SiteR>>
    /\ idx = 2 /\ pc = "return"
    /\ data = <<>> /\ gets[R1] = 1
    /\ \E i \in 1..Len(all_data) : all_data[i].source_url = R1

\* C25: the traversal goes level by level: when scrape_url fetches a link
\* found on a page d - 1 hops from the seed (a page d hops away), no page
\* further than d hops from the seed has been fetched yet in this crawl.
C25_LevelOrder ==
    [][(stack # <<>> /\ call = <<>> /\ gets' # gets) =>
          \A u \in DOMAIN fetched : fetched[u] <= Len(stack)]_vars

\* the step of the link loop kept a record of the link it scraped
Produced ==
    /\ Len(stack') = Len(stack)
    /\ Len(stack'[Len(stack)].data) = Len(stack[Len(stack)].data) + 1

ExpansionStep(bounded) ==
       /\ (stack # <<>> /\ call = <<>>) =>
             /\ (call' # <<>>) <=> Produced
             /\ (call' # <<>>) =>
                   LET kept == stack'[Len(stack)].data
                   IN  /\ call'[1].url = kept[Len(kept)].source_url
                       /\ call'[1].depth = stack[Len(stack)].depth + 1
       /\ (stack # <<>> /\ call # <<>>) =>
             IF bounded
             THEN (finds' # finds) <=> (call[1].depth < max_depth)
             ELSE finds' # finds

\* C26 as stated: a link is expanded exactly when its scrape produced a
\* record, with depth + 1, and the links of every expanded child are then
\* looked up.
C26_AsStated == [][ExpansionStep(FALSE)]_vars

\* C26 amended: a link is expanded exactly when its scrape produced a
\* record, with depth + 1; the links of the expanded child are looked up
\* exactly when that depth is below max_depth.
C26_Expansion == [][ExpansionStep(TRUE)]_vars

\* a link of the seed gave a record and is about to be expanded at depth 1
C26_Witness ==
    /\ stack # <<>> /\ call # <<>>
    /\ call[1].depth = stack[Len(stack)].depth + 1
    /\ call[1].depth < max_depth
    /\ LET kept == stack[Len(stack)].data
       IN  kept # <<>> /\ kept[Len(kept)].source_url = call[1].url

IsPrefix(s, t) == Len(s) <= Len(t) /\ SubSeq(t, 1, Len(s)) = s

\* C28: partial results are kept: no step of the run loses a record, so
\* when the link-discovery fetch of a page fails or an exception ends the
\* loop over a page's links, every record collected before is still held,
\* in order, and reaches the list the call for the target returns.
C28_PartialKept ==
    [][/\ IsPrefix(Held, Held')
       /\ pc' = "return" => stack' = <<>>]_vars

\* an exception ended the link loop of a page that had given records
C28_Witness ==
    /\ stack # <<>>
    /\ stack[Len(stack)].err
    /\ stack[Len(stack)].data # <<>>

\* C29: the crawl of a target terminates, whatever the links of the pages
\* (links back to the seed and to pages already scraped included), when
\* every fetch ends: a call of scrape_site_with_microsites that has started
\* on the microsites returns in the end.
C29_CrawlReturns == (pc = "microsites") ~> (pc = "return")

\* the crawl went two links deep, collected three records and returned
C29_Witness ==
    /\ pc = "return" /\ include_microsites
    /\ \E u \in DOMAIN fetched : fetched[u] = 2
    /\ finds[SeedA] = 1 /\ Len(data) >= 3

(***************************************************************************)
(* Claims about date extraction (SpecDate)                                 *)
(***************************************************************************)
\* the source holds a text that one of the formats parses
SourceParses(t) ==
    t.form # "absent" /\ \E i \in 1..Len(date_formats) : strptime(t, date_formats[i]).ok

\* text is YYYY-MM-DD for the calendar date dt
IsIsoOf(text, dt) ==
    /\ text.form = "num" /\ text.sep = "-"
    /\ text.f = <<dt.y, dt.m, dt.d>>
    /\ Width(text.f[1]) = 4 /\ text.f[2] \in 1..12 /\ text.f[3] \in 1..31

\* C30: date extraction returns, for the first source in order whose text
\* some format parses and the first format in order that parses it, the
\* parsed calendar date written YYYY-MM-DD; sources that are missing or
\* that no format parses are passed over; the current date is returned
\* exactly when no source parses.
C30_FirstParseWins ==
    res # <<>> =>
        LET tags == req.tags
            good == {j \in 1..Len(tags) : SourceParses(tags[j])}
        IN  IF good = {} THEN res[1] = Today
            ELSE \E j \in good :
                   /\ \A k \in good : j <= k
                   /\ \E i \in 1..Len(date_formats) :
                         /\ strptime(tags[j], date_formats[i]).ok
                         /\ \A h \in 1..(i - 1) : ~strptime(tags[j], date_formats[h]).ok
                         /\ IsIsoOf(res[1], strptime(tags[j], date_formats[i]))

\* the base URLs of the targets the run has come to
SeedsSoFar == {sites[i].url : i \in 1..(IF idx <= Len(sites) THEN idx ELSE Len(sites))}

\* C31: when include_microsites is false the base URL is the only URL
\* fetched for a target and the target gives at most one record: no page
\* is fetched for its links, no link is scraped, no call of
\* _scrape_microsites is made.  Equally, links are looked up and scraped
\* only when include_microsites is true.
C31_SeedOnly ==
    ~include_microsites =>
        /\ stack = <<>> /\ call = <<>> /\ pc # "microsites"
        /\ \A u \in DOMAIN finds : finds[u] = 0
        /\ \A u \in DOMAIN gets : gets[u] > 0 => u \in SeedsSoFar
        /\ pc = "return" =>
              /\ Len(data) <= 1
              /\ DOMAIN fetched \subseteq {sites[idx].url}
              /\ \A i \in 1..Len(data) : data[i].source_url = sites[idx].url

\* without microsites the target's base page was fetched and gave the one
\* record the call returns
C31_Witness ==
    /\ ~include_microsites
    /\ pc = "return" /\ sites[idx].url = SeedA
    /\ gets[SeedA] = 1 /\ Len(data) = 1

\* C32: every URL fetched during the crawl of a target, by scrape_url or
\* for its links, at any depth, has the network host of the target's base
\* URL, the filter comparing each link only with the page it was found on.
C32_SameHost ==
    pc \in {"microsites", "return"} =>
        /\ \A u \in DOMAIN fetched : u.netloc = sites[idx].url.netloc
        /\ \A k \in 1..Len(stack) : stack[k].url.netloc = sites[idx].url.netloc
        /\ call # <<>> => call[1].url.netloc = sites[idx].url.netloc

\* a page two links away from the base URL was fetched, on the same host
C32_Witness ==
    /\ pc = "microsites" /\ Len(stack) = 2
    /\ \E u \in DOMAIN fetched :
          /\ fetched[u] = 2 /\ u # sites[idx].url
          /\ u.netloc = sites[idx].url.netloc

====
